---- MODULE Spec2Model ----
(***************************************************************************)
(* Model of main.py, the ThingsBoard Edge database backup script:          *)
(* validate the environment, remove stale artifacts, dump the database     *)
(* into tb_edge_backup_tmp/, tar it into tb_edge_backup.tar.gz, remove the *)
(* temporary folder, upload the archive to S3 and remove the local archive *)
(* when the upload succeeded.                                              *)
(*                                                                         *)
(* One process of the script is one instance i.  An action is one call    *)
(* into the operating system or one phase of a blocking call: the cleaner  *)
(* is its exists/remove/rmtree calls; shutil.rmtree is lstat, open and     *)
(* scan, one unlink per file, rmdir; os.makedirs is mkdir and, when that   *)
(* fails, isdir; run() is the start of the child (the shell opens the dump *)
(* file; tar reads the folder while its compressor opens the archive, in   *)
(* either order) followed by its return; upload_to_s3 is the key, the      *)
(* opening of the archive and the end of the transfer.                     *)
(* The script directory (backup_dir, archive_file) and                     *)
(* the bucket are shared by all instances; Spec runs one instance, SpecTwo *)
(* runs two.  Folders and archive files carry the identity of their inode  *)
(* (the instance that created them, 0 for what earlier runs left): rmtree  *)
(* unlinks through the folder it opened, and a tar or shell that opens an  *)
(* existing file truncates it and shares it with whoever still writes it;  *)
(* what two tars leave in a file they both write is any of: the output of  *)
(* the one, the output of the other, an unlistable mix.                    *)
(***************************************************************************)
EXTENDS Integers, Sequences, FiniteSets, TLC

VARIABLES
    instances,      \* the processes of the script started against the directory
    env,            \* os.environ after load_dotenv(): name -> <<>> (unset) or <<value>>
    backup_dir,     \* SCRIPT_DIR/tb_edge_backup_tmp
    archive_file,   \* SCRIPT_DIR/tb_edge_backup.tar.gz
    bucket,         \* the objects of the S3 bucket
    pc,             \* per instance: the statement it executes next
    exitCode,       \* per instance: <<>> while running, <<status>> once exited
    log,            \* per instance: the statements of main() that have run so far
    acted,          \* per instance: the statement being executed has changed the disk
    dumpRc,         \* per instance: <<>>, or <<returncode>> of the pg_dump command
    tarRc,          \* per instance: <<>>, or <<returncode>> of the tar command
    uploaded,       \* per instance: what upload_to_s3 returned ("none" before the call)
    s3_key,         \* per instance: <<>>, or <<the key computed at line 114>>
    clock,          \* per instance: <<>>, or <<what datetime.now() returned at line 112>>
    tarSeen,        \* per instance: <<>>, or <<the folder as the running tar read it>>
    tarFile,        \* per instance: <<>>, or <<the inode of the archive its tar opened>>
    scanned,        \* per instance: the folder its rmtree opened, the names left to unlink
    sending,        \* per instance: <<>>, or <<the archive as upload_file opened it>>
    disk0           \* backup_dir and archive_file as they were when the run started

vars == <<instances, env, backup_dir, archive_file, bucket, pc, exitCode, log, acted,
          dumpRc, tarRc, uploaded, s3_key, clock, tarSeen, tarFile, scanned, sending, disk0>>

----------------------------------------------------------------------------
(* Bounds of the model *)

\* return codes of an external command range over 0..MaxReturnCode
MaxReturnCode == 2
\* a stale tb_edge_backup_tmp/ holds at most this many files of an earlier run
MaxStaleFiles == 1
\* datetime.now() ranges over this many consecutive seconds
NumClockTicks == 2

RetCodes == 0..MaxReturnCode

----------------------------------------------------------------------------
(* Filesystem and bucket values *)

\* a path that does not exist; for the archive, by is the instance that removed it
\* (0: it was not there when the runs started)
AbsentDir == [exists |-> FALSE, id |-> 0, files |-> {}]
AbsentFile ==
    [exists |-> FALSE, ino |-> 0, by |-> 0, entries |-> {}, valid |-> FALSE, shared |-> FALSE]
RemovedBy(i) ==
    [exists |-> FALSE, ino |-> 0, by |-> i, entries |-> {}, valid |-> FALSE, shared |-> FALSE]

\* files an earlier run (instance 0) left in tb_edge_backup_tmp/; by is the
\* instance that last opened the file for writing
StaleFile(k) == [name |-> "old" \o ToString(k) \o ".dump", by |-> 0]
StaleDirs == {AbsentDir} \cup
             {[exists |-> TRUE, id |-> 0, files |-> {StaleFile(k) : k \in 1..n}] :
                 n \in 0..MaxStaleFiles}
\* an archive an earlier run left behind (kept after a failed upload); by is the
\* instance whose tar wrote the content, valid says tar -t can list it, shared
\* says another tar had the file open when it was last opened for writing
StaleArchive == [exists |-> TRUE, ino |-> 0, by |-> 0, shared |-> FALSE,
                 entries |-> {"tb_edge_backup_tmp/", "tb_edge_backup_tmp/old1.dump"},
                 valid |-> TRUE]
StaleArchives == {AbsentFile, StaleArchive}

\* datetime.now(): 2024-01-01 02:00:00 and the seconds after it
Clocks == {[year |-> 2024, month |-> 1, day |-> 1, hour |-> 2, minute |-> 0, second |-> s] :
              s \in 0..(NumClockTicks - 1)}

----------------------------------------------------------------------------
(* Configuration: lines 16-37 *)

Unset == <<>>
EnvValues(S) == {Unset} \cup {<<s>> : s \in S}

\* os.getenv(name): None when unset; a Python value is truthy unless None or ""
Truthy(v) == v # Unset /\ v[1] # ""
\* os.getenv(name, default)
Getenv(e, name, default) == IF e[name] = Unset THEN default ELSE e[name][1]

DB_NAME(e) == Getenv(e, "DB_NAME", "tb-edge")

RequiredVars == {"AWS_ACCESS_KEY_ID", "AWS_SECRET_ACCESS_KEY", "S3_BUCKET_NAME"}

\* a validation that only notices unset variables, not empty ones
MissingVarsUnsetOnly(e) == {k \in RequiredVars : e[k] = Unset}
\* a validation that forgets the bucket name
MissingVarsNoBucket(e) == {k \in RequiredVars \ {"S3_BUCKET_NAME"} : ~Truthy(e[k])}
\* missing_vars = [key for key, value in required_vars.items() if not value]
MissingVars(e) == {k \in RequiredVars : ~Truthy(e[k])}

----------------------------------------------------------------------------
(* Pure helpers of main() *)

Pad(n, width) ==
    LET s == ToString(n)
        RECURSIVE Zeros(_)
        Zeros(k) == IF k <= 0 THEN "" ELSE "0" \o Zeros(k - 1)
    IN Zeros(width - Len(s)) \o s

\* datetime.now().strftime("%Y%m%d_%H%M%S")
Strftime(now) ==
    Pad(now.year, 4) \o Pad(now.month, 2) \o Pad(now.day, 2) \o "_" \o
    Pad(now.hour, 2) \o Pad(now.minute, 2) \o Pad(now.second, 2)

\* archive_filename = f"{DB_NAME}_backup_{timestamp}.tar.gz"
ArchiveFilename(e, timestamp) == DB_NAME(e) \o "_backup_" \o timestamp \o ".tar.gz"

\* a key computation that prefixes whenever S3_FOLDER is set, even to ""
S3KeyIfSet(e, timestamp) ==
    IF e["S3_FOLDER"] # Unset
    THEN e["S3_FOLDER"][1] \o "/" \o ArchiveFilename(e, timestamp)
    ELSE ArchiveFilename(e, timestamp)
\* s3_key = f"{S3_FOLDER}/{archive_filename}" if S3_FOLDER else archive_filename
S3Key(e, timestamp) ==
    IF Truthy(e["S3_FOLDER"])
    THEN e["S3_FOLDER"][1] \o "/" \o ArchiveFilename(e, timestamp)
    ELSE ArchiveFilename(e, timestamp)

\* a run() that never exits
RunFailsNever(returncode) == FALSE
\* a run() that only treats 1 as failure
RunFailsOnlyOne(returncode) == returncode = 1
\* run(cmd): exit(1) when result.returncode != 0
RunFails(returncode) == returncode # 0


\* a cleaner that forgets the temporary folder
CleanedDirKeeps(d) == d
\* remove_old_archives, line 63: the rmdir that ends shutil.rmtree(backup_dir)
CleanedDir(d) == AbsentDir
\* remove_old_archives, line 60: os.remove(archive_file)
CleanedArchive(i, a) == RemovedBy(i)

\* a main() that leaves the temporary folder in place after archiving
RmtreeKeeps(d) == d
\* line 109: the rmdir that ends shutil.rmtree(backup_dir)
Rmtree(d) == AbsentDir

\* the names in a folder
Names(d) == {f.name : f \in d.files}
\* shutil.rmtree: unlink of one scanned name through the opened folder
Unlink(d, name) == [d EXCEPT !.files = {f \in @ : f.name # name}]
\* shutil.rmtree: the folder at the path is still the one lstat saw
SameDir(d, id) == d.exists /\ d.id = id

\* os.makedirs, the mkdir call: creates the folder
Mkdir(i) == [exists |-> TRUE, id |-> i, files |-> {}]

\* a main() that removes the local archive whatever the upload returned
AfterUploadAlwaysRemove(ok) == "remove"
\* if upload_to_s3(...): <remove the archive> else: exit(1)
AfterUpload(ok) == IF ok THEN "remove" ELSE "failed"

\* a main() that forgets os.remove(archive_file)
RemovedArchiveKeeps(i, a) == a
\* os.remove(archive_file), line 119
RemovedArchive(i, a) == RemovedBy(i)

\* the file the shell creates or truncates for "> {dump_file}" before pg_dump runs
DumpFile(e, i) == [name |-> DB_NAME(e) \o ".dump", by |-> i]
\* the folder once the shell has opened dump_file in it
WithDumpFile(d, f) == [d EXCEPT !.files = {g \in @ : g.name # f.name} \cup {f}]

\* tar -czf opens archive_file: an existing file is truncated and keeps its inode,
\* else the file is created; until tar ends it is no listable archive; sharing
\* says that another running tar has the same file open
TarOpened(i, old, sharing) ==
    [exists |-> TRUE, ino |-> IF old.exists THEN old.ino ELSE i, by |-> i,
     entries |-> {}, valid |-> FALSE, shared |-> old.exists /\ sharing]
\* what tar has written when it returns rc, having read the folder as d: with rc 0
\* the folder and all its files; with another rc an unlistable file, or an archive
\* of the folder and the files tar could still read (kept), or of nothing when
\* there was no folder
TarContent(rc, d, kept, listable) ==
    IF rc = 0
    THEN [entries |-> {"tb_edge_backup_tmp/"} \cup {"tb_edge_backup_tmp/" \o n : n \in Names(d)},
          valid |-> TRUE]
    ELSE IF ~listable THEN [entries |-> {}, valid |-> FALSE]
    ELSE IF ~d.exists THEN [entries |-> {}, valid |-> TRUE]
    ELSE [entries |-> {"tb_edge_backup_tmp/"} \cup {"tb_edge_backup_tmp/" \o n : n \in kept},
          valid |-> TRUE]
\* what is found in the file when a tar returns: its own output, and when another
\* tar has written the same file also an unlistable mix or what the other left
Landings(old) == IF old.shared THEN {"own", "mixed", "other"} ELSE {"own"}
\* a tar that reports success without writing the archive
TarOutputNothing(i, ino, content, landed, old) == AbsentFile
\* archive_file once the tar command has returned: untouched (old) when the file
\* tar opened has been removed since; else the file tar opened holds what landed
TarOutput(i, ino, content, landed, old) ==
    IF ~old.exists \/ old.ino # ino \/ landed = "other"
    THEN old
    ELSE IF landed = "mixed"
    THEN [exists |-> TRUE, ino |-> ino, by |-> i,
          entries |-> {}, valid |-> FALSE, shared |-> TRUE]
    ELSE [exists |-> TRUE, ino |-> ino, by |-> i,
          entries |-> content.entries, valid |-> content.valid, shared |-> old.shared]

\* s3_client.upload_file(file_path, S3_BUCKET_NAME, s3_key): creates or overwrites
PutObject(b, key, i, a) ==
    {o \in b : o.key # key} \cup
    {[key |-> key, uploader |-> i, by |-> a.by, entries |-> a.entries, valid |-> a.valid]}

----------------------------------------------------------------------------
(* Initial states *)

Creds == EnvValues({"", "secret"})

Envs ==
    {[AWS_ACCESS_KEY_ID |-> a, AWS_SECRET_ACCESS_KEY |-> k, S3_BUCKET_NAME |-> b,
      S3_FOLDER |-> f, DB_NAME |-> d] :
        a \in Creds, k \in Creds, b \in EnvValues({"", "mybucket"}),
        f \in EnvValues({"", "nightly"}), d \in EnvValues({"", "mydb"})}

InitRun(I, E) ==
    /\ instances = I
    /\ env \in E
    /\ backup_dir \in StaleDirs
    /\ archive_file \in StaleArchives
    /\ bucket = {}
    /\ pc = [i \in I |-> "load"]
    /\ exitCode = [i \in I |-> <<>>]
    /\ log = [i \in I |-> <<>>]
    /\ acted = [i \in I |-> FALSE]
    /\ dumpRc = [i \in I |-> <<>>]
    /\ tarRc = [i \in I |-> <<>>]
    /\ uploaded = [i \in I |-> "none"]
    /\ s3_key = [i \in I |-> <<>>]
    /\ clock = [i \in I |-> <<>>]
    /\ tarSeen = [i \in I |-> <<>>]
    /\ tarFile = [i \in I |-> <<>>]
    /\ scanned = [i \in I |-> [id |-> 0, names |-> {}]]
    /\ sending = [i \in I |-> <<>>]
    /\ disk0 = <<backup_dir, archive_file>>

\* one run of the script, any environment
Init == InitRun({1}, Envs)

\* two runs of the script started against the same directory and .env file, which
\* sets the required variables and S3_FOLDER and leaves DB_NAME to its default
InitTwo ==
    InitRun({1, 2}, {e \in Envs : /\ MissingVars(e) = {}
                                  /\ e["DB_NAME"] = Unset
                                  /\ e["S3_FOLDER"] = <<"nightly">>})

----------------------------------------------------------------------------
(* The statements of the script *)

Goto(i, label) == pc' = [pc EXCEPT ![i] = label] /\ UNCHANGED exitCode
\* exit(status); an uncaught exception ends the process with status 1
Exit(i, status) ==
    /\ pc' = [pc EXCEPT ![i] = IF status = 0 THEN "done" ELSE "failed"]
    /\ exitCode' = [exitCode EXCEPT ![i] = <<status>>]
\* statement step of main() has run: it has returned, or it has ended the process
\* by exit() or by an exception raised after it had changed the disk
Logged(i, step) == log' = [log EXCEPT ![i] = Append(@, step)]
\* an uncaught exception inside statement step
Raise(i, step) ==
    /\ Exit(i, 1)
    /\ IF acted[i] THEN Logged(i, step) ELSE UNCHANGED log
\* the statement being executed has changed the disk (TRUE), or is over (FALSE)
Acted(i, b) == acted' = [acted EXCEPT ![i] = b]

\* lines 27-37: validate the required environment variables at import time
LoadConfig(i) ==
    /\ pc[i] = "load"
    /\ IF MissingVars(env) # {} THEN Exit(i, 1) ELSE Goto(i, "clean")
    /\ UNCHANGED <<instances, env, backup_dir, archive_file, bucket, log, dumpRc, tarRc,
                   uploaded, s3_key, clock, tarSeen, tarFile, scanned, sending, disk0, acted>>

\* line 58, os.path.exists(archive_file)
CleanCheckArchive(i) ==
    /\ pc[i] = "clean"
    /\ Goto(i, IF archive_file.exists THEN "clean_remove" ELSE "clean_dir")
    /\ UNCHANGED <<instances, env, backup_dir, archive_file, bucket, log, dumpRc, tarRc,
                   uploaded, s3_key, clock, tarSeen, tarFile, scanned, sending, disk0, acted>>

\* line 60, os.remove(archive_file): FileNotFoundError when the archive is gone
CleanRemoveArchive(i) ==
    /\ pc[i] = "clean_remove"
    /\ IF archive_file.exists
       THEN /\ archive_file' = CleanedArchive(i, archive_file)
            /\ Goto(i, "clean_dir")
            /\ Acted(i, TRUE)
            /\ UNCHANGED log
       ELSE /\ Raise(i, "clean")
            /\ UNCHANGED <<archive_file, acted>>
    /\ UNCHANGED <<instances, env, backup_dir, bucket, dumpRc, tarRc,
                   uploaded, s3_key, clock, tarSeen, tarFile, scanned, sending, disk0>>

\* line 61, os.path.exists(backup_dir); remove_old_archives returns when it is False
CleanCheckDir(i) ==
    /\ pc[i] = "clean_dir"
    /\ IF backup_dir.exists
       THEN Goto(i, "clean_lstat") /\ UNCHANGED <<log, acted>>
       ELSE Goto(i, "mkdir") /\ Logged(i, "clean") /\ Acted(i, FALSE)
    /\ UNCHANGED <<instances, env, backup_dir, archive_file, bucket, dumpRc, tarRc,
                   uploaded, s3_key, clock, tarSeen, tarFile, scanned, sending, disk0>>

\* shutil.rmtree(backup_dir) inside statement stmt, entered at label at,
\* os.lstat(path): FileNotFoundError when the folder is gone
RmtreeLstat(i, at, stmt) ==
    /\ pc[i] = at
    /\ IF backup_dir.exists
       THEN /\ scanned' = [scanned EXCEPT ![i] = [id |-> backup_dir.id, names |-> {}]]
            /\ Goto(i, stmt \o "_open")
            /\ UNCHANGED log
       ELSE /\ Raise(i, stmt)
            /\ UNCHANGED scanned
    /\ UNCHANGED <<instances, env, backup_dir, archive_file, bucket, dumpRc, tarRc,
                   uploaded, s3_key, clock, tarSeen, tarFile, sending, disk0, acted>>

\* shutil.rmtree: os.open(path), the samestat test and the scan of the folder;
\* OSError when the folder is gone or is not the one lstat saw (samestat compares
\* inode numbers: a folder created in between may or may not have got the number
\* of the one lstat saw)
RmtreeOpen(i, stmt) ==
    /\ pc[i] = stmt \o "_open"
    /\ \E samestat \in BOOLEAN :
         /\ SameDir(backup_dir, scanned[i].id) => samestat
         /\ ~backup_dir.exists => ~samestat
         /\ IF samestat
            THEN /\ scanned' = [scanned EXCEPT ![i] =
                                   [id |-> backup_dir.id, names |-> Names(backup_dir)]]
                 /\ Goto(i, IF Names(backup_dir) = {} THEN stmt \o "_rmdir"
                                                      ELSE stmt \o "_unlink")
                 /\ UNCHANGED log
            ELSE /\ Raise(i, stmt)
                 /\ UNCHANGED scanned
    /\ UNCHANGED <<instances, env, backup_dir, archive_file, bucket, dumpRc, tarRc,
                   uploaded, s3_key, clock, tarSeen, tarFile, sending, disk0, acted>>

\* shutil.rmtree: os.unlink of one scanned name in the opened folder;
\* FileNotFoundError when the file is no longer in it
RmtreeUnlink(i, stmt) ==
    /\ pc[i] = stmt \o "_unlink"
    /\ \E name \in scanned[i].names :
         IF SameDir(backup_dir, scanned[i].id) /\ name \in Names(backup_dir)
         THEN /\ backup_dir' = Unlink(backup_dir, name)
              /\ scanned' = [scanned EXCEPT ![i].names = @ \ {name}]
              /\ Goto(i, IF scanned[i].names = {name} THEN stmt \o "_rmdir" ELSE stmt \o "_unlink")
              /\ Acted(i, TRUE)
              /\ UNCHANGED log
         ELSE /\ Raise(i, stmt)
              /\ UNCHANGED <<backup_dir, scanned, acted>>
    /\ UNCHANGED <<instances, env, archive_file, bucket, dumpRc, tarRc,
                   uploaded, s3_key, clock, tarSeen, tarFile, sending, disk0>>

\* line 63, shutil.rmtree(backup_dir)
CleanLstat(i) == RmtreeLstat(i, "clean_lstat", "clean")
CleanOpen(i) == RmtreeOpen(i, "clean")
CleanUnlink(i) == RmtreeUnlink(i, "clean")

\* line 63, shutil.rmtree(backup_dir), os.rmdir(path): OSError when the folder at
\* the path is gone or not empty; then remove_old_archives returns
CleanRmdir(i) ==
    /\ pc[i] = "clean_rmdir"
    /\ IF backup_dir.exists /\ backup_dir.files = {}
       THEN /\ backup_dir' = CleanedDir(backup_dir)
            /\ Goto(i, "mkdir")
            /\ Logged(i, "clean")
            /\ Acted(i, FALSE)
       ELSE /\ Raise(i, "clean")
            /\ UNCHANGED <<backup_dir, acted>>
    /\ UNCHANGED <<instances, env, archive_file, bucket, dumpRc, tarRc,
                   uploaded, s3_key, clock, tarSeen, tarFile, scanned, sending, disk0>>

\* line 99, os.makedirs(backup_dir, exist_ok=True): mkdir; when the folder exists
\* mkdir fails and os.path.isdir(backup_dir) follows as a second call, which
\* re-raises FileExistsError when the folder has gone in between
MakeDirs(i) ==
    /\ pc[i] \in {"mkdir", "mkdir_isdir"}
    /\ IF pc[i] = "mkdir"
       THEN IF backup_dir.exists
            THEN /\ Goto(i, "mkdir_isdir")
                 /\ UNCHANGED <<backup_dir, log>>
            ELSE /\ backup_dir' = Mkdir(i)
                 /\ Goto(i, "dump")
                 /\ Logged(i, "mkdir")
       ELSE /\ IF backup_dir.exists
               THEN Goto(i, "dump") /\ Logged(i, "mkdir")
               ELSE Raise(i, "mkdir")
            /\ UNCHANGED backup_dir
    /\ UNCHANGED <<instances, env, archive_file, bucket, dumpRc, tarRc,
                   uploaded, s3_key, clock, tarSeen, tarFile, scanned, sending, disk0, acted>>

\* line 103, run("docker exec ... pg_dump ... > dump_file") starts: the shell creates
\* or truncates dump_file and pg_dump runs; when the folder is gone the shell fails
\* at once and run() exits 1
DumpStart(i) ==
    /\ pc[i] = "dump"
    /\ IF backup_dir.exists
       THEN /\ backup_dir' = WithDumpFile(backup_dir, DumpFile(env, i))
            /\ Goto(i, "dump_wait")
            /\ UNCHANGED <<dumpRc, log>>
       ELSE /\ \E rc \in RetCodes \ {0} :
                 /\ dumpRc' = [dumpRc EXCEPT ![i] = <<rc>>]
                 /\ IF RunFails(rc) THEN Exit(i, 1) ELSE Goto(i, "archive")
            /\ Logged(i, "dump")
            /\ UNCHANGED backup_dir
    /\ UNCHANGED <<instances, env, archive_file, bucket, tarRc,
                   uploaded, s3_key, clock, tarSeen, tarFile, scanned, sending, disk0, acted>>

\* lines 51-54 for the dump: the command returns and run() exits 1 unless it is 0
DumpReturn(i) ==
    /\ pc[i] = "dump_wait"
    /\ \E rc \in RetCodes :
         /\ dumpRc' = [dumpRc EXCEPT ![i] = <<rc>>]
         /\ IF RunFails(rc) THEN Exit(i, 1) ELSE Goto(i, "archive")
    /\ Logged(i, "dump")
    /\ UNCHANGED <<instances, env, backup_dir, archive_file, bucket, tarRc,
                   uploaded, s3_key, clock, tarSeen, tarFile, scanned, sending, disk0, acted>>

\* line 106, run("tar -czf archive_file -C SCRIPT_DIR tb_edge_backup_tmp") starts:
\* the shell runs tar; a command that cannot be run (tar not found) returns
\* non-zero with nothing written and run() exits 1
TarStart(i) ==
    /\ pc[i] = "archive"
    /\ \E started \in BOOLEAN :
         IF started
         THEN /\ Goto(i, "tar_wait")
              /\ UNCHANGED <<tarRc, log>>
         ELSE /\ \E rc \in RetCodes \ {0} :
                   /\ tarRc' = [tarRc EXCEPT ![i] = <<rc>>]
                   /\ IF RunFails(rc) THEN Exit(i, 1) ELSE Goto(i, "rmtree")
              /\ Logged(i, "archive")
    /\ UNCHANGED <<instances, env, backup_dir, archive_file, bucket, dumpRc,
                   uploaded, s3_key, clock, tarSeen, tarFile, scanned, sending, disk0, acted>>

\* the compressor of the running tar creates or truncates the archive
TarCreate(i) ==
    /\ pc[i] = "tar_wait"
    /\ tarFile[i] = <<>>
    /\ archive_file' = TarOpened(i, archive_file,
                                 \E j \in instances \ {i} :
                                     pc[j] = "tar_wait" /\ tarFile[j] = <<archive_file.ino>>)
    /\ tarFile' = [tarFile EXCEPT ![i] = <<archive_file'.ino>>]
    /\ UNCHANGED <<instances, env, backup_dir, bucket, pc, exitCode, log, dumpRc, tarRc,
                   uploaded, s3_key, clock, tarSeen, scanned, sending, disk0, acted>>

\* the running tar reads the folder
TarRead(i) ==
    /\ pc[i] = "tar_wait"
    /\ tarSeen[i] = <<>>
    /\ tarSeen' = [tarSeen EXCEPT ![i] = <<backup_dir>>]
    /\ UNCHANGED <<instances, env, backup_dir, archive_file, bucket, pc, exitCode, log,
                   dumpRc, tarRc, uploaded, s3_key, clock, tarFile, scanned, sending,
                   disk0, acted>>

\* lines 51-54 for tar: the command returns, 0 only when it archived the whole
\* folder it read, and run() exits 1 unless it is 0
TarReturn(i) ==
    /\ pc[i] = "tar_wait"
    /\ tarFile[i] # <<>>
    /\ tarSeen[i] # <<>>
    /\ \E rc \in RetCodes, kept \in SUBSET Names(tarSeen[i][1]), listable \in BOOLEAN,
          landed \in Landings(archive_file) :
         /\ rc = 0 => (tarSeen[i][1].exists /\ kept = Names(tarSeen[i][1]) /\ listable)
         /\ ~listable => kept = {}
         /\ archive_file' = TarOutput(i, tarFile[i][1],
                                      TarContent(rc, tarSeen[i][1], kept, listable),
                                      landed, archive_file)
         /\ tarRc' = [tarRc EXCEPT ![i] = <<rc>>]
         /\ IF RunFails(rc) THEN Exit(i, 1) ELSE Goto(i, "rmtree")
    /\ Logged(i, "archive")
    /\ UNCHANGED <<instances, env, backup_dir, bucket, dumpRc,
                   uploaded, s3_key, clock, tarSeen, tarFile, scanned, sending, disk0, acted>>

\* line 109, shutil.rmtree(backup_dir); an exception is uncaught: exit status 1
RemoveTmpLstat(i) == RmtreeLstat(i, "rmtree", "rmtree")
RemoveTmpOpen(i) == RmtreeOpen(i, "rmtree")
RemoveTmpUnlink(i) == RmtreeUnlink(i, "rmtree")

\* line 109, shutil.rmtree(backup_dir), os.rmdir(path): OSError (uncaught) when
\* the folder at the path is gone or not empty
RemoveTmpRmdir(i) ==
    /\ pc[i] = "rmtree_rmdir"
    /\ IF backup_dir.exists /\ backup_dir.files = {}
       THEN /\ backup_dir' = Rmtree(backup_dir)
            /\ Goto(i, "upload")
            /\ Logged(i, "rmtree")
            /\ Acted(i, FALSE)
       ELSE /\ Raise(i, "rmtree")
            /\ UNCHANGED <<backup_dir, acted>>
    /\ UNCHANGED <<instances, env, archive_file, bucket, dumpRc, tarRc,
                   uploaded, s3_key, clock, tarSeen, tarFile, scanned, sending, disk0>>

\* lines 112-114: the timestamp and the key
UploadKey(i) ==
    /\ pc[i] = "upload"
    /\ \E now \in Clocks :
         /\ clock' = [clock EXCEPT ![i] = <<now>>]
         /\ s3_key' = [s3_key EXCEPT ![i] = <<S3Key(env, Strftime(now))>>]
    /\ Goto(i, "upload_open")
    /\ UNCHANGED <<instances, env, backup_dir, archive_file, bucket, log, dumpRc, tarRc,
                   uploaded, tarSeen, tarFile, scanned, sending, disk0, acted>>

\* lines 67-83: upload_file opens the archive; when it is gone the exception is
\* caught, upload_to_s3 returns False and main exits 1 (lines 122-125)
UploadOpen(i) ==
    /\ pc[i] = "upload_open"
    /\ IF archive_file.exists
       THEN /\ sending' = [sending EXCEPT ![i] = <<archive_file>>]
            /\ Goto(i, "upload_transfer")
            /\ UNCHANGED <<uploaded, log>>
       ELSE /\ uploaded' = [uploaded EXCEPT ![i] = "false"]
            /\ IF AfterUpload(FALSE) = "failed" THEN Exit(i, 1) ELSE Goto(i, AfterUpload(FALSE))
            /\ Logged(i, "upload")
            /\ UNCHANGED sending
    /\ UNCHANGED <<instances, env, backup_dir, archive_file, bucket, dumpRc, tarRc,
                   s3_key, clock, tarSeen, tarFile, scanned, disk0, acted>>

\* lines 78-92 and 116-125: the transfer ends; S3 has stored the object and
\* upload_to_s3 returns True, or an error is caught, it returns False and main exits 1
UploadReturn(i) ==
    /\ pc[i] = "upload_transfer"
    /\ \E ok \in BOOLEAN :
         /\ bucket' = IF ok THEN PutObject(bucket, s3_key[i][1], i, sending[i][1]) ELSE bucket
         /\ uploaded' = [uploaded EXCEPT ![i] = IF ok THEN "true" ELSE "false"]
         /\ IF AfterUpload(ok) = "failed" THEN Exit(i, 1) ELSE Goto(i, AfterUpload(ok))
    /\ Logged(i, "upload")
    /\ UNCHANGED <<instances, env, backup_dir, archive_file, dumpRc, tarRc,
                   s3_key, clock, tarSeen, tarFile, scanned, sending, disk0, acted>>

\* lines 117-121: os.remove(archive_file) and return; FileNotFoundError (uncaught,
\* exit status 1) when the archive is gone
RemoveLocal(i) ==
    /\ pc[i] = "remove"
    /\ IF archive_file.exists
       THEN /\ archive_file' = RemovedArchive(i, archive_file)
            /\ Exit(i, 0)
            /\ Logged(i, "remove")
       ELSE /\ Raise(i, "remove")
            /\ UNCHANGED archive_file
    /\ UNCHANGED <<instances, env, backup_dir, bucket, dumpRc, tarRc,
                   uploaded, s3_key, clock, tarSeen, tarFile, scanned, sending, disk0, acted>>

Next ==
    \/ \E i \in instances : LoadConfig(i)
    \/ \E i \in instances : CleanCheckArchive(i)
    \/ \E i \in instances : CleanRemoveArchive(i)
    \/ \E i \in instances : CleanCheckDir(i)
    \/ \E i \in instances : CleanLstat(i)
    \/ \E i \in instances : CleanOpen(i)
    \/ \E i \in instances : CleanUnlink(i)
    \/ \E i \in instances : CleanRmdir(i)
    \/ \E i \in instances : MakeDirs(i)
    \/ \E i \in instances : DumpStart(i)
    \/ \E i \in instances : DumpReturn(i)
    \/ \E i \in instances : TarStart(i)
    \/ \E i \in instances : TarCreate(i)
    \/ \E i \in instances : TarRead(i)
    \/ \E i \in instances : TarReturn(i)
    \/ \E i \in instances : RemoveTmpLstat(i)
    \/ \E i \in instances : RemoveTmpOpen(i)
    \/ \E i \in instances : RemoveTmpUnlink(i)
    \/ \E i \in instances : RemoveTmpRmdir(i)
    \/ \E i \in instances : UploadKey(i)
    \/ \E i \in instances : UploadOpen(i)
    \/ \E i \in instances : UploadReturn(i)
    \/ \E i \in instances : RemoveLocal(i)

Spec == Init /\ [][Next]_vars
SpecTwo == InitTwo /\ [][Next]_vars

----------------------------------------------------------------------------
(* Vocabulary of the properties *)

Terminated(i) == pc[i] \in {"done", "failed"}
Did(i, step) == \E n \in 1..Len(log[i]) : log[i][n] = step
IsPrefix(a, b) == Len(a) <= Len(b) /\ a = SubSeq(b, 1, Len(a))
\* the statements of main() in program order
Order == <<"clean", "mkdir", "dump", "archive", "rmtree", "upload", "remove">>
\* the archive on disk is the one instance i's successful tar wrote
OwnArchive(i) ==
    /\ tarRc[i] = <<0>>
    /\ archive_file.exists /\ archive_file.by = i /\ archive_file.valid
\* the dump file's entry in a backup archive
DumpEntry == "tb_edge_backup_tmp/" \o
             (IF env["DB_NAME"] = <<>> THEN "tb-edge" ELSE env["DB_NAME"][1]) \o ".dump"
\* what a backup archive holds: the folder and the dump file in it
BackupEntries == {"tb_edge_backup_tmp/", DumpEntry}
BucketConfigured == env["S3_BUCKET_NAME"] \notin {<<>>, <<"">>}

----------------------------------------------------------------------------
\* C1: when upload_to_s3 returned False the process has exited with status 1 and
\* the archive the run produced is still on disk; nothing deleted it.
C1_UploadFailureKeepsArchive ==
    \A i \in instances :
        uploaded[i] = "false" =>
            /\ pc[i] = "failed"
            /\ exitCode[i] = <<1>>
            /\ OwnArchive(i)
            /\ ~Did(i, "remove")

C1_Witness ==
    /\ uploaded[1] = "false"
    /\ Terminated(1)
    /\ archive_file.exists

\* C2: a run that ends after a successful upload exits 0, has removed the local
\* archive and left an object holding its archive at the computed key; and as long
\* as upload_to_s3 has not returned True the archive the run produced stays on disk.
C2_UploadSuccessRemovesArchive ==
    \A i \in instances :
        /\ (uploaded[i] = "true" /\ Terminated(i)) =>
              /\ pc[i] = "done"
              /\ exitCode[i] = <<0>>
              /\ ~archive_file.exists
              /\ \E o \in bucket :
                    o.key = s3_key[i][1] /\ o.by = i /\ o.entries = BackupEntries
        /\ pc[i] = "done" => uploaded[i] = "true"
        /\ (tarRc[i] = <<0>> /\ uploaded[i] # "true") => OwnArchive(i)

C2_Witness ==
    /\ pc[1] = "done"
    /\ uploaded[1] = "true"
    /\ disk0[2].exists
    /\ bucket # {}

\* C3: when the dump command returned non-zero the process has exited with status 1
\* and neither tar, nor the removal of the temporary folder, nor the upload ran.
C3_DumpFailureAborts ==
    \A i \in instances :
        (dumpRc[i] # <<>> /\ dumpRc[i] # <<0>>) =>
            /\ pc[i] = "failed"
            /\ exitCode[i] = <<1>>
            /\ log[i] = <<"clean", "mkdir", "dump">>
            /\ tarRc[i] = <<>>
            /\ ~archive_file.exists
            /\ backup_dir.exists
            /\ uploaded[i] = "none"
            /\ bucket = {}

C3_Witness ==
    /\ dumpRc[1] = <<2>>
    /\ Terminated(1)

\* C4 as stated: without S3_BUCKET_NAME the run still dumps and archives, ends
\* successfully and keeps tb_edge_backup.tar.gz holding tb_edge_backup_tmp/<dbName>.dump.
C4_LocalOnlyMode ==
    \A i \in instances :
        (~BucketConfigured /\ Terminated(i)) =>
            /\ exitCode[i] = <<0>>
            /\ dumpRc[i] = <<0>>
            /\ tarRc[i] = <<0>>
            /\ OwnArchive(i)
            /\ archive_file.entries = BackupEntries

\* C4 amended: without S3_BUCKET_NAME the run performs no dump and no archive and
\* exits 1 at validation; the archive of a successful tar, holding
\* tb_edge_backup_tmp/<dbName>.dump, is on disk at exit exactly when the upload was
\* attempted and failed.
C4_NoLocalOnlyMode ==
    \A i \in instances :
        /\ ~BucketConfigured =>
              /\ pc[i] \in {"load", "failed"}
              /\ log[i] = <<>>
              /\ dumpRc[i] = <<>> /\ tarRc[i] = <<>>
              /\ ~(archive_file.exists /\ archive_file.by = i)
              /\ (Terminated(i) => exitCode[i] = <<1>>)
        /\ Terminated(i) => (OwnArchive(i) <=> uploaded[i] = "false")
        /\ (Terminated(i) /\ OwnArchive(i)) => archive_file.entries = BackupEntries

C4_Witness ==
    /\ env["S3_BUCKET_NAME"] = <<>>
    /\ env["AWS_ACCESS_KEY_ID"] = <<"secret">>
    /\ env["AWS_SECRET_ACCESS_KEY"] = <<"secret">>
    /\ pc[1] = "failed"
    /\ exitCode[1] = <<1>>

\* C5: when a required variable is unset or empty the process exits 1 with the
\* folder, the archive and the bucket as they were at start, and no statement of
\* main() (cleaner, dump, archiver, uploader) is executed.
C5_ConfigErrorBeforeSideEffects ==
    \A i \in instances :
        (\E k \in {"AWS_ACCESS_KEY_ID", "AWS_SECRET_ACCESS_KEY", "S3_BUCKET_NAME"} :
            env[k] \in {<<>>, <<"">>}) =>
            /\ pc[i] \in {"load", "failed"}
            /\ (pc[i] = "failed" => exitCode[i] = <<1>>)
            /\ log[i] = <<>>
            /\ <<backup_dir, archive_file>> = disk0
            /\ bucket = {}
            /\ dumpRc[i] = <<>> /\ tarRc[i] = <<>> /\ uploaded[i] = "none"

C5_Witness ==
    /\ env["AWS_SECRET_ACCESS_KEY"] = <<"">>
    /\ env["AWS_ACCESS_KEY_ID"] = <<"secret">>
    /\ env["S3_BUCKET_NAME"] = <<"mybucket">>
    /\ pc[1] = "failed"
    /\ archive_file.exists /\ backup_dir.exists /\ backup_dir.files # {}

\* C6 as stated: once the cleaner has run, neither tb_edge_backup_tmp nor
\* tb_edge_backup.tar.gz exists until the dump command begins.
C6_NothingBeforeDump ==
    \A i \in instances :
        (Did(i, "clean") /\ ~Did(i, "dump") /\ pc[i] \in {"mkdir", "dump"}) =>
            /\ ~archive_file.exists
            /\ ~backup_dir.exists

\* C6 amended: once the cleaner has run, and until the dump command runs, no archive
\* is on disk and nothing of an earlier run is left of the folder: it does not exist
\* when the cleaner returns, and is the empty folder line 99 creates when the dump
\* starts.
C6_CleanerPostcondition ==
    \A i \in instances :
        (Did(i, "clean") /\ ~Did(i, "dump")) =>
            /\ ~archive_file.exists
            /\ (pc[i] = "mkdir" => ~backup_dir.exists)
            /\ (pc[i] = "dump" => backup_dir.exists /\ backup_dir.files = {})

C6_Witness ==
    /\ pc[1] = "mkdir"
    /\ disk0[1].exists /\ disk0[1].files # {}
    /\ disk0[2].exists
    /\ ~backup_dir.exists /\ ~archive_file.exists

\* C7 as stated: on every failed run that got past the cleaner the temporary folder
\* is still on disk at exit.
C7_FailurePreservesTmp ==
    \A i \in instances :
        (pc[i] = "failed" /\ Did(i, "clean")) => backup_dir.exists

\* C7 amended: the temporary folder is removed once tar has succeeded, before the
\* upload; a run that fails at the dump or at tar exits 1 with the folder (and the
\* dump file) on disk, a run whose upload fails exits 1 with the folder already gone.
C7_TmpRemovedAfterArchive ==
    \A i \in instances :
        /\ Did(i, "rmtree") => (tarRc[i] = <<0>> /\ ~backup_dir.exists)
        /\ uploaded[i] # "none" => ~backup_dir.exists
        /\ (pc[i] = "failed" /\ Did(i, "clean") /\ uploaded[i] = "none") =>
              /\ exitCode[i] = <<1>>
              /\ backup_dir.exists
              /\ \E f \in backup_dir.files : "tb_edge_backup_tmp/" \o f.name = DumpEntry

C7_Witness ==
    /\ pc[1] = "failed"
    /\ uploaded[1] = "false"
    /\ ~backup_dir.exists
    /\ archive_file.exists

\* C8: the key handed to upload_to_s3 is <S3_FOLDER>/<dbName>_backup_<timestamp>.tar.gz
\* when S3_FOLDER is set and non-empty, <dbName>_backup_<timestamp>.tar.gz otherwise,
\* with timestamp the %Y%m%d_%H%M%S rendering of the clock; and the default database
\* with folder nightly at 2024-01-01 02:00:00 gives
\* nightly/tb-edge_backup_20240101_020000.tar.gz.
C8_RemoteKeyFormat ==
    \A i \in instances :
        s3_key[i] # <<>> =>
            LET now == clock[i][1]
                timestamp == "20240101_0200" \o (IF now.second < 10 THEN "0" ELSE "")
                                 \o ToString(now.second)
                dbName == IF env["DB_NAME"] = <<>> THEN "tb-edge" ELSE env["DB_NAME"][1]
                folder == env["S3_FOLDER"]
            IN /\ folder \in {<<>>, <<"">>} =>
                    s3_key[i][1] = dbName \o "_backup_" \o timestamp \o ".tar.gz"
               /\ folder \notin {<<>>, <<"">>} =>
                    s3_key[i][1] = folder[1] \o "/" \o dbName \o "_backup_" \o timestamp \o ".tar.gz"
               /\ (folder = <<"nightly">> /\ env["DB_NAME"] = <<>> /\ now.second = 0) =>
                    s3_key[i][1] = "nightly/tb-edge_backup_20240101_020000.tar.gz"
               /\ (uploaded[i] = "true" /\ ~Terminated(i)) => \E o \in bucket : o.key = s3_key[i][1]

C8_Witness ==
    /\ s3_key[1] = <<"nightly/tb-edge_backup_20240101_020000.tar.gz">>
    /\ uploaded[1] = "true"

\* C9: the statements of a run are executed in program order, each at most once;
\* tar runs only after the dump returned 0, the folder removal and the upload only
\* after tar returned 0, the archive removal only after the upload returned True;
\* and once the run has exited nothing on disk, in the bucket or of the run changes.
C9_StateInv ==
    \A i \in instances :
        /\ IsPrefix(log[i], Order)
        /\ Did(i, "archive") => dumpRc[i] = <<0>>
        /\ Did(i, "rmtree") => tarRc[i] = <<0>>
        /\ Did(i, "upload") => tarRc[i] = <<0>>
        /\ Did(i, "remove") => uploaded[i] = "true"
        /\ (pc[i] = "done" <=> log[i] = Order)
        /\ (Terminated(i) <=> exitCode[i] # <<>>)

C9_LinearNoRetry ==
    /\ []C9_StateInv
    /\ [][\A i \in instances : Terminated(i) =>
            UNCHANGED <<backup_dir, archive_file, bucket, pc[i], log[i], exitCode[i],
                        dumpRc[i], tarRc[i], uploaded[i], s3_key[i]>>]_vars

C9_Witness ==
    /\ pc[1] = "done"
    /\ log[1] = Order
    /\ exitCode[1] = <<0>>

\* C10: with two instances in one directory, an instance whose tar returned 0 can
\* stand before its upload with the archive it produced removed, replaced or
\* spoilt, and can upload an archive it did not produce; whenever that happens it
\* is the other instance that removed the archive, wrote the one on disk or wrote
\* into the same file, and an instance that finds the archive gone when it uploads
\* exits 1.
C10_InterferenceFromOtherInstance ==
    \A i \in instances :
        /\ (tarRc[i] = <<0>> /\ uploaded[i] # "true" /\ ~OwnArchive(i)) =>
              \/ archive_file.by \in instances \ {i}
              \/ archive_file.exists /\ archive_file.shared
        /\ \A o \in bucket :
              (o.uploader = i /\ o.by # i) => o.by \in instances \ {i}
        /\ (uploaded[i] = "false" /\ sending[i] = <<>>) =>
              /\ exitCode[i] = <<1>>
              /\ tarRc[i] = <<0>>
              /\ ~Did(i, "remove")

\* B's cleaner has removed A's archive between A's tar and A's upload
C10_Witness ==
    /\ instances = {1, 2}
    /\ pc[1] = "upload"
    /\ tarRc[1] = <<0>>
    /\ archive_file = RemovedBy(2)
    /\ pc[2] = "clean_dir"

====
